---- MODULE Spec2Model ----
(***************************************************************************)
(* Model of the DEX arbitrage backtesting engine                           *)
(* (src/dex_arbitrage_backtesting/analyzer/arbitrage_analyzer.py):         *)
(* ArbitrageAnalyzer.detect_arbitrage_opportunities,                       *)
(* simulate_arbitrage_trade, calculate_price_impact, get_exchange_fee,     *)
(* calculate_gas_cost, analyze_historical_opportunities and                *)
(* get_opportunity_summary; and of the batching loop of the log fetcher    *)
(* (src/dex_arbitrage_backtesting/fetcher/etherscan_fetcher.py):           *)
(* EtherscanFetcher.get_swap_events and get_sync_events.                   *)
(*                                                                         *)
(* Numbers.  Python computes on floats; the model computes on exact        *)
(* rationals [n, d] in lowest terms with d > 0, so a comparison or an      *)
(* equality of the model is the one of real arithmetic.  A Python None is  *)
(* the empty sequence and a present optional value v is <<v>>.  Python     *)
(* exceptions are modelled where the code can raise them (KeyError on a    *)
(* missing dict key, ZeroDivisionError on a zero divisor, an error of the  *)
(* database session) together with the handler that catches them.          *)
(***************************************************************************)
EXTENDS Integers, Sequences, FiniteSets, TLC

VARIABLES
    self_min_spread_bps,  \* ArbitrageAnalyzer.min_spread_bps (constructor)
    pc,                   \* position of analyze_historical_opportunities
    from_block,           \* its arguments
    to_block,
    min_spread_bps,       \* optional: None or <<v>>
    block_number,         \* the loop variable of the block loop
    all_opportunities,    \* the list all_opportunities
    all_trades,           \* the list all_trades
    visited,              \* history: blocks detect was called for, in order
    provFailed,           \* history: blocks whose database query raised
    handled,              \* history: <<block, cause>> of every run of the runner's except
    simNone,              \* history: simulations of the run that returned None
    summary,              \* result of get_opportunity_summary on the run's frames
    api,                  \* which public method a direct call invokes
    args,                 \* the arguments of that call
    ret,                  \* its result, None before the call returns
    fetch_pc,             \* position of get_swap_events / get_sync_events
    current_block,        \* the loop variable of the fetcher's batching loop
    requests              \* history: the get_logs requests made, in order

vars == <<self_min_spread_bps, pc, from_block, to_block, min_spread_bps,
          block_number, all_opportunities, all_trades, visited, provFailed,
          handled, simNone, summary, api, args, ret, fetch_pc, current_block,
          requests>>

runVars == <<pc, from_block, to_block, min_spread_bps, block_number,
             all_opportunities, all_trades, visited, provFailed, handled,
             simNone, summary>>

callVars == <<api, args, ret>>

fetchVars == <<fetch_pc, current_block, requests>>

----------------------------------------------------------------------------
(* Bounds of the model *)

MaxStates == 3      \* pool-state rows the query returns for one block (direct detect calls)
MaxRunStates == 2   \* pool-state rows per block inside a backtest run
MaxBlock == 2       \* block numbers range over 0..MaxBlock
MaxFetchBlock == 4  \* block numbers of a fetched range
MaxBatchSize == 3   \* blocks per get_logs request

----------------------------------------------------------------------------
(* Python values *)

None == <<>>

Some(v) == <<v>>

\* `x or default` on an optional integer: None and 0 are both falsy
PyOr(x, default) == IF x = None \/ x[1] = 0 THEN default ELSE x[1]

----------------------------------------------------------------------------
(* Exact rational arithmetic standing for Python's float arithmetic *)

Abs(x) == IF x < 0 THEN -x ELSE x

RECURSIVE GCD(_, _)
GCD(a, b) == IF b = 0 THEN a ELSE GCD(b, a % b)

RNorm(n, d) ==
    LET g == GCD(Abs(n), Abs(d))
        s == IF d < 0 THEN -1 ELSE 1
    IN [n |-> (s * n) \div g, d |-> (s * d) \div g]

RInt(k) == [n |-> k, d |-> 1]

RMul(x, y) ==
    LET g1 == GCD(Abs(x.n), y.d)
        g2 == GCD(Abs(y.n), x.d)
    IN RNorm((x.n \div g1) * (y.n \div g2), (x.d \div g2) * (y.d \div g1))

\* the divisor is non-zero: the callers model ZeroDivisionError themselves
RDiv(x, y) ==
    RMul(x, IF y.n > 0 THEN [n |-> y.d, d |-> y.n] ELSE [n |-> -y.d, d |-> -y.n])

RAdd(x, y) ==
    LET g == GCD(x.d, y.d)
    IN RNorm(x.n * (y.d \div g) + y.n * (x.d \div g), (x.d \div g) * y.d)

RNeg(x) == [n |-> -x.n, d |-> x.d]

RSub(x, y) == RAdd(x, RNeg(y))

RIsZero(x) == x.n = 0

REq(x, y) == x.n = y.n /\ x.d = y.d

RLt(x, y) == RSub(x, y).n < 0

RGe(x, y) == ~RLt(x, y)

RGt(x, y) == RLt(y, x)

RMin(x, y) == IF RLt(y, x) THEN y ELSE x

RECURSIVE Pow10(_)
Pow10(k) == IF k = 0 THEN 1 ELSE 10 * Pow10(k - 1)

----------------------------------------------------------------------------
(* The rows the pool-state query joins: tokens, exchanges, pairs *)

\* tokens.decimals of the token addresses of the model
TokenDecimals(token_address) ==
    CASE token_address = "WETH" -> 2
      [] token_address = "USDC" -> 3
      [] token_address = "DAI" -> 2

PairUniUSDC ==
    [pair_address |-> "0xUniUSDC", token0_address |-> "WETH",
     token1_address |-> "USDC", exchange_name |-> "Uniswap V2"]

PairSushiUSDC ==
    [pair_address |-> "0xSushiUSDC", token0_address |-> "WETH",
     token1_address |-> "USDC", exchange_name |-> "SushiSwap"]

PairUniDAI ==
    [pair_address |-> "0xUniDAI", token0_address |-> "WETH",
     token1_address |-> "DAI", exchange_name |-> "Uniswap V2"]

PairSushiDAI ==
    [pair_address |-> "0xSushiDAI", token0_address |-> "WETH",
     token1_address |-> "DAI", exchange_name |-> "SushiSwap"]

\* events_syncs.timestamp: every Sync event of a block carries the block's time
BlockTimestamp(b) == 1000 + b

\* one row of the query: a Sync event joined with its pair, exchange and tokens
PoolRow(pair, reserve0, reserve1, b) ==
    [pair_address |-> pair.pair_address,
     token0_address |-> pair.token0_address,
     token1_address |-> pair.token1_address,
     exchange_name |-> pair.exchange_name,
     reserve0 |-> reserve0,
     reserve1 |-> reserve1,
     timestamp |-> BlockTimestamp(b),
     token0_symbol |-> pair.token0_address,
     token1_symbol |-> pair.token1_address,
     token0_decimals |-> TokenDecimals(pair.token0_address),
     token1_decimals |-> TokenDecimals(pair.token1_address)]

\* what session.execute yields: the rows, or an exception of the session
ProviderRows(rows) == [ok |-> TRUE, rows |-> rows]

ProviderError == [ok |-> FALSE, rows |-> <<>>]

----------------------------------------------------------------------------
(* detect_arbitrage_opportunities *)

\* lines 86-87: reserve / 10 ** decimals
NormalizeReserve(reserve, decimals) == RDiv(RInt(reserve), RInt(Pow10(decimals)))

\* line 88 divides by reserve0_normalized
NormalizeRaises(state) == state.reserve0 = 0

Normalize(state) ==
    LET r0 == NormalizeReserve(state.reserve0, state.token0_decimals)
        r1 == NormalizeReserve(state.reserve1, state.token1_decimals)
    IN state @@ [reserve0_normalized |-> r0,
                 reserve1_normalized |-> r1,
                 price_token0_in_token1 |-> RDiv(r1, r0)]

\* lines 96-98
IsCandidatePairAnyVenue(state1, state2) ==
    /\ state1.token0_address = state2.token0_address
    /\ state1.token1_address = state2.token1_address

IsCandidatePairToken0Only(state1, state2) ==
    /\ state1.token0_address = state2.token0_address
    /\ state1.exchange_name # state2.exchange_name

\* lines 96-98
IsCandidatePair(state1, state2) ==
    /\ state1.token0_address = state2.token0_address
    /\ state1.token1_address = state2.token1_address
    /\ state1.exchange_name # state2.exchange_name

PricesDifferAlways(price1, price2) == TRUE

\* line 104
PricesDiffer(price1, price2) == ~REq(price1, price2)

BuyIsFirstAlways(price1, price2) == TRUE

\* line 106
BuyIsFirst(price1, price2) == RLt(price1, price2)

\* line 114; the caller has excluded buy_price = 0
SpreadBps(buy_price, sell_price) ==
    RMul(RDiv(RSub(sell_price, buy_price), buy_price), RInt(10000))

MeetsThresholdAlways(spread_bps, min_spread) == TRUE

\* line 116
MeetsThreshold(spread_bps, min_spread) == RGe(spread_bps, RInt(min_spread))

\* lines 117-134
MakeOpportunity(block, state1, buy_state, sell_state, buy_price, sell_price, spread_bps) ==
    [block_number |-> block,
     timestamp |-> state1.timestamp,
     base_token |-> state1.token0_symbol,
     quote_token |-> state1.token1_symbol,
     buy_exchange |-> buy_state.exchange_name,
     sell_exchange |-> sell_state.exchange_name,
     buy_pair_address |-> buy_state.pair_address,
     sell_pair_address |-> sell_state.pair_address,
     buy_price |-> buy_price,
     sell_price |-> sell_price,
     spread_bps |-> spread_bps,
     spread_percentage |-> RDiv(spread_bps, RInt(100)),
     buy_reserve0 |-> buy_state.reserve0_normalized,
     buy_reserve1 |-> buy_state.reserve1_normalized,
     sell_reserve0 |-> sell_state.reserve0_normalized,
     sell_reserve1 |-> sell_state.reserve1_normalized]

\* lines 93-136: the nested loop over i < j, in the code's order.  The result
\* is [raised, opps]: raised when line 114 divides by a buy_price of 0.
RECURSIVE ScanPairs(_, _, _, _, _, _)
ScanPairs(pool_states, i, j, block, min_spread, opportunities) ==
    IF i > Len(pool_states) THEN [raised |-> FALSE, opps |-> opportunities]
    ELSE IF j > Len(pool_states)
    THEN ScanPairs(pool_states, i + 1, i + 2, block, min_spread, opportunities)
    ELSE
      LET state1 == pool_states[i]
          state2 == pool_states[j]
          price1 == state1.price_token0_in_token1
          price2 == state2.price_token0_in_token1
          first == BuyIsFirst(price1, price2)
          buy_state == IF first THEN state1 ELSE state2
          sell_state == IF first THEN state2 ELSE state1
          buy_price == IF first THEN price1 ELSE price2
          sell_price == IF first THEN price2 ELSE price1
      IN IF IsCandidatePair(state1, state2) /\ PricesDiffer(price1, price2)
         THEN IF RIsZero(buy_price)
              THEN [raised |-> TRUE, opps |-> <<>>]
              ELSE LET spread_bps == SpreadBps(buy_price, sell_price)
                   IN IF MeetsThreshold(spread_bps, min_spread)
                      THEN ScanPairs(pool_states, i, j + 1, block, min_spread,
                               Append(opportunities,
                                   MakeOpportunity(block, state1, buy_state, sell_state,
                                                   buy_price, sell_price, spread_bps)))
                      ELSE ScanPairs(pool_states, i, j + 1, block, min_spread,
                                     opportunities)
         ELSE ScanPairs(pool_states, i, j + 1, block, min_spread, opportunities)

\* lines 51-138: the body of detect inside its try.  response is what the
\* session yields for the block's query; self_min is self.min_spread_bps.
\* The result is [raised, opps]: raised when the session fails (line 78),
\* when line 88 divides by a zero reserve0, or when line 114 divides by a
\* zero buy_price.
DetectBody(self_min, response, block, min_spread_arg) ==
    LET min_spread == PyOr(min_spread_arg, self_min)
        pool_states == response.rows
    IN IF ~response.ok THEN [raised |-> TRUE, opps |-> <<>>]
       ELSE IF Len(pool_states) < 2 THEN [raised |-> FALSE, opps |-> <<>>]
       ELSE IF \E k \in 1..Len(pool_states) : NormalizeRaises(pool_states[k])
       THEN [raised |-> TRUE, opps |-> <<>>]
       ELSE LET normalized == [k \in 1..Len(pool_states) |-> Normalize(pool_states[k])]
            IN ScanPairs(normalized, 1, 2, block, min_spread, <<>>)

DetectNoExcept(body) == body

\* lines 140-142: except Exception -> log, return []
DetectExcept(body) ==
    IF body.raised THEN [raised |-> FALSE, opps |-> <<>>] ELSE body

\* lines 48-142
detect_arbitrage_opportunities(self_min, response, block, min_spread_arg) ==
    DetectExcept(DetectBody(self_min, response, block, min_spread_arg))

----------------------------------------------------------------------------
(* Direct calls of detect_arbitrage_opportunities *)

\* ArbitrageAnalyzer(min_spread_bps=...): the default of line 25 and a zero
DefaultMinSpreadBps == 50

SelfMinSpreads == {DefaultMinSpreadBps, 0}

\* the min_spread_bps a caller passes: none, or a number of basis points
CallerMinSpreads == {None, Some(0), Some(10), Some(50), Some(100)}

\* raw reserves: 10 WETH against 20,000 to 20,200 of the quote token (prices
\* 2000, 2002, 2010 and 2020), and a reserve of zero on either side
DetectRows(b) ==
    {PoolRow(PairUniUSDC, 0, 20000000, b),
     PoolRow(PairUniUSDC, 1000, 0, b),
     PoolRow(PairUniUSDC, 1000, 20000000, b),
     PoolRow(PairUniUSDC, 1000, 20020000, b),
     PoolRow(PairSushiUSDC, 1000, 20000000, b),
     PoolRow(PairSushiUSDC, 2000, 40200000, b),
     PoolRow(PairSushiUSDC, 1000, 20200000, b),
     PoolRow(PairSushiUSDC, 1000, 0, b),
     PoolRow(PairUniDAI, 1000, 2000000, b),
     PoolRow(PairSushiDAI, 1000, 2020000, b)}

SeqsUpTo(S, n) == UNION {[1..k -> S] : k \in 0..n}

DetectInputs ==
    [response : {ProviderRows(rows) : rows \in SeqsUpTo(DetectRows(1), MaxStates)},
     block_number : {1},
     min_spread_bps : CallerMinSpreads]

RunIdle ==
    /\ pc = "idle"
    /\ from_block = 0
    /\ to_block = 0
    /\ min_spread_bps = None
    /\ block_number = 0
    /\ all_opportunities = <<>>
    /\ all_trades = <<>>
    /\ visited = <<>>
    /\ provFailed = {}
    /\ handled = {}
    /\ simNone = 0
    /\ summary = None

\* no fetch is under way
FetchIdle ==
    /\ fetch_pc = "idle"
    /\ current_block = 0
    /\ requests = <<>>

InitDetect ==
    /\ self_min_spread_bps \in SelfMinSpreads
    /\ RunIdle
    /\ FetchIdle
    /\ api = "detect"
    /\ args \in DetectInputs
    /\ ret = None

DetectCall ==
    /\ api = "detect"
    /\ ret = None
    /\ ret' = Some(detect_arbitrage_opportunities(self_min_spread_bps, args.response,
                                                  args.block_number, args.min_spread_bps))
    /\ UNCHANGED <<self_min_spread_bps, runVars, api, args, fetchVars>>

SpecDetect == InitDetect /\ [][DetectCall]_vars

----------------------------------------------------------------------------
(* Properties of detect_arbitrage_opportunities *)

DetectReturned == api = "detect" /\ ret # None

DetectResult == ret[1].opps

DetectStates == args.response.rows

\* the threshold the caller asked for: the argument, else the constructor's
CallerThreshold ==
    IF args.min_spread_bps = None THEN self_min_spread_bps ELSE args.min_spread_bps[1]

\* price and spread of input rows, from the raw reserves and decimals
RowPrice(row) ==
    RDiv(RDiv(RInt(row.reserve1), RInt(Pow10(row.token1_decimals))),
         RDiv(RInt(row.reserve0), RInt(Pow10(row.token0_decimals))))

RowsValid(row1, row2) ==
    /\ row1.reserve0 > 0 /\ row1.reserve1 > 0
    /\ row2.reserve0 > 0 /\ row2.reserve1 > 0

RowsCandidate(row1, row2) ==
    /\ row1.token0_address = row2.token0_address
    /\ row1.token1_address = row2.token1_address
    /\ row1.exchange_name # row2.exchange_name

RowBuy(row1, row2) == IF RLt(RowPrice(row2), RowPrice(row1)) THEN row2 ELSE row1

RowSell(row1, row2) == IF RLt(RowPrice(row2), RowPrice(row1)) THEN row1 ELSE row2

RowSpreadBps(row1, row2) ==
    LET b == RowPrice(RowBuy(row1, row2))
        s == RowPrice(RowSell(row1, row2))
    IN RMul(RDiv(RSub(s, b), b), RInt(10000))

\* opp was built from the rows buy and sell
OppIsOf(opp, buy, sell) ==
    /\ opp.buy_pair_address = buy.pair_address
    /\ opp.sell_pair_address = sell.pair_address
    /\ REq(RMul(opp.buy_reserve0, RInt(Pow10(buy.token0_decimals))), RInt(buy.reserve0))
    /\ REq(RMul(opp.buy_reserve1, RInt(Pow10(buy.token1_decimals))), RInt(buy.reserve1))
    /\ REq(RMul(opp.sell_reserve0, RInt(Pow10(sell.token0_decimals))), RInt(sell.reserve0))
    /\ REq(RMul(opp.sell_reserve1, RInt(Pow10(sell.token1_decimals))), RInt(sell.reserve1))

EmittedFor(row1, row2) ==
    \E k \in 1..Len(DetectResult) :
        OppIsOf(DetectResult[k], RowBuy(row1, row2), RowSell(row1, row2))

\* C1: every Opportunity detect returns has spread_bps >= the caller's
\* threshold (the min_spread_bps argument, or the analyzer's own when the
\* caller passes none).
C1_SpreadAtLeastThreshold ==
    DetectReturned =>
        \A k \in 1..Len(DetectResult) :
            RGe(DetectResult[k].spread_bps, RInt(CallerThreshold))

C1_Witness ==
    /\ DetectReturned
    /\ args.min_spread_bps = Some(100)
    /\ Len(DetectResult) > 0
    /\ \E i, j \in 1..Len(DetectStates) :
          /\ i < j
          /\ RowsValid(DetectStates[i], DetectStates[j])
          /\ RowsCandidate(DetectStates[i], DetectStates[j])
          /\ RLt(RowSpreadBps(DetectStates[i], DetectStates[j]), RInt(100))
          /\ ~RIsZero(RowSpreadBps(DetectStates[i], DetectStates[j]))

RowHasZeroReserve(row) == row.reserve0 = 0 \/ row.reserve1 = 0

AllRowsValid ==
    \A k \in 1..Len(DetectStates) : ~RowHasZeroReserve(DetectStates[k])

\* C2: for every candidate pair with positive reserves and different prices
\* and every caller-supplied non-negative min_spread_bps, detect emits an
\* Opportunity for the pair iff its spread_bps >= that min_spread_bps.
\* (Stated over blocks all of whose states have positive reserves, so that a
\* violation is one of the threshold and not of a zero reserve elsewhere in
\* the block.)
C2_EmitIffSpreadAtLeastCallerMin ==
    (DetectReturned /\ args.min_spread_bps # None /\ AllRowsValid) =>
        \A i, j \in 1..Len(DetectStates) :
            (/\ i < j
             /\ RowsValid(DetectStates[i], DetectStates[j])
             /\ RowsCandidate(DetectStates[i], DetectStates[j])
             /\ ~REq(RowPrice(DetectStates[i]), RowPrice(DetectStates[j])))
            => (EmittedFor(DetectStates[i], DetectStates[j])
                <=> RGe(RowSpreadBps(DetectStates[i], DetectStates[j]),
                        RInt(args.min_spread_bps[1])))

\* C3: every emitted Opportunity has buy_price < sell_price, the prices being
\* those of the states recorded as its buy and sell side, and no Opportunity
\* is emitted for a pair of states of equal price.
C3_BuyBelowSell ==
    DetectReturned =>
        /\ \A k \in 1..Len(DetectResult) :
              /\ RLt(DetectResult[k].buy_price, DetectResult[k].sell_price)
              /\ REq(DetectResult[k].buy_price,
                     RDiv(DetectResult[k].buy_reserve1, DetectResult[k].buy_reserve0))
              /\ REq(DetectResult[k].sell_price,
                     RDiv(DetectResult[k].sell_reserve1, DetectResult[k].sell_reserve0))
        /\ \A i, j \in 1..Len(DetectStates) :
              (/\ i < j
               /\ RowsValid(DetectStates[i], DetectStates[j])
               /\ REq(RowPrice(DetectStates[i]), RowPrice(DetectStates[j])))
              => /\ ~EmittedFor(DetectStates[i], DetectStates[j])
                 /\ ~EmittedFor(DetectStates[j], DetectStates[i])

C3_Witness ==
    /\ DetectReturned
    /\ Len(DetectResult) > 0
    /\ \E i, j \in 1..Len(DetectStates) :
          /\ i < j
          /\ RowsValid(DetectStates[i], DetectStates[j])
          /\ RowsCandidate(DetectStates[i], DetectStates[j])
          /\ REq(RowPrice(DetectStates[i]), RowPrice(DetectStates[j]))

\* C4: a state with a zero reserve is left out without affecting the rest of
\* the block: every pair of the remaining valid states that qualifies is
\* still emitted, and no Opportunity has a zero-reserve state as a side.
C4_ZeroReserveExcluded ==
    DetectReturned =>
        /\ \A i, j \in 1..Len(DetectStates) :
              (/\ i < j
               /\ RowsValid(DetectStates[i], DetectStates[j])
               /\ RowsCandidate(DetectStates[i], DetectStates[j])
               /\ ~REq(RowPrice(DetectStates[i]), RowPrice(DetectStates[j]))
               /\ RGe(RowSpreadBps(DetectStates[i], DetectStates[j]),
                      RInt(PyOr(args.min_spread_bps, self_min_spread_bps))))
              => EmittedFor(DetectStates[i], DetectStates[j])
        /\ \A k \in 1..Len(DetectResult) :
              /\ ~RIsZero(DetectResult[k].buy_reserve0)
              /\ ~RIsZero(DetectResult[k].buy_reserve1)
              /\ ~RIsZero(DetectResult[k].sell_reserve0)
              /\ ~RIsZero(DetectResult[k].sell_reserve1)

\* the block holds a zero-reserve state beside a qualifying valid pair
C4_Witness ==
    /\ DetectReturned
    /\ \E k \in 1..Len(DetectStates) : RowHasZeroReserve(DetectStates[k])
    /\ \E i, j \in 1..Len(DetectStates) :
          /\ i < j
          /\ RowsValid(DetectStates[i], DetectStates[j])
          /\ RowsCandidate(DetectStates[i], DetectStates[j])
          /\ RGe(RowSpreadBps(DetectStates[i], DetectStates[j]),
                 RInt(PyOr(args.min_spread_bps, self_min_spread_bps)))
          /\ ~REq(RowPrice(DetectStates[i]), RowPrice(DetectStates[j]))

----------------------------------------------------------------------------
(* calculate_gas_cost, get_exchange_fee, calculate_price_impact *)

\* lines 33-35
GasPriceGwei == 20

GasLimit == 500000

EthPriceUsd == 2000

\* lines 38-39 and the default of line 231
UniswapFeeBps == 30

SushiswapFeeBps == 30

DefaultFeeBps == 30

\* lines 41-46; gas_price_gwei is optional
calculate_gas_cost(gas_price_gwei) ==
    LET gas_price == PyOr(gas_price_gwei, GasPriceGwei)
        gas_cost_eth == RMul(RInt(gas_price * GasLimit), [n |-> 1, d |-> 1000000000])
    IN RMul(gas_cost_eth, RInt(EthPriceUsd))

\* fees.get(exchange_name, 0)
get_exchange_fee_zero_default(exchange_name) ==
    CASE exchange_name = "Uniswap V2" -> UniswapFeeBps
      [] exchange_name = "SushiSwap" -> SushiswapFeeBps
      [] OTHER -> 0 * DefaultFeeBps

\* lines 225-231
get_exchange_fee(exchange_name) ==
    CASE exchange_name = "Uniswap V2" -> UniswapFeeBps
      [] exchange_name = "SushiSwap" -> SushiswapFeeBps
      [] OTHER -> DefaultFeeBps

\* line 237
HasZeroReserve(reserve_in, reserve_out) == RIsZero(reserve_in) \/ RIsZero(reserve_out)

ZeroImpact(amount_in) ==
    Some([amount_in |-> amount_in, amount_out |-> RInt(0), price_before |-> RInt(0),
          price_after |-> RInt(0), price_impact |-> RInt(0), price_impact_bps |-> RInt(0)])

\* line 238: what a zero reserve returns
ZeroReserveReturn(amount_in) == None

AmountOutNoSlippage(amount_in, reserve_in, reserve_out) ==
    RDiv(RMul(reserve_out, amount_in), reserve_in)

\* line 241, on a non-zero reserve_in + amount_in
AmountOut(amount_in, reserve_in, reserve_out) ==
    RDiv(RMul(reserve_out, amount_in), RAdd(reserve_in, amount_in))

\* lines 244-255, given the amount_out of line 241
PriceImpactDict(amount_in, reserve_in, reserve_out, amount_out) ==
    [amount_in |-> amount_in,
     amount_out |-> amount_out,
     price_before |-> RDiv(reserve_out, reserve_in),
     price_after |-> RDiv(RSub(reserve_out, amount_out), RAdd(reserve_in, amount_in)),
     price_impact |->
         RDiv(RSub(RDiv(RSub(reserve_out, amount_out), RAdd(reserve_in, amount_in)),
                   RDiv(reserve_out, reserve_in)),
              RDiv(reserve_out, reserve_in)),
     price_impact_bps |->
         RMul(RDiv(RSub(RDiv(RSub(reserve_out, amount_out), RAdd(reserve_in, amount_in)),
                        RDiv(reserve_out, reserve_in)),
                   RDiv(reserve_out, reserve_in)),
              RInt(10000))]

\* lines 237-255: the body inside the try, as [raised, value].  With non-zero
\* reserves the only divisor that can be zero is reserve_in + amount_in of
\* lines 241 and 245 (ZeroDivisionError).
PriceImpactBody(amount_in, reserve_in, reserve_out) ==
    IF HasZeroReserve(reserve_in, reserve_out)
    THEN [raised |-> FALSE, value |-> ZeroReserveReturn(amount_in)]
    ELSE IF RIsZero(RAdd(reserve_in, amount_in))
    THEN [raised |-> TRUE, value |-> None]
    ELSE [raised |-> FALSE,
          value |-> Some(PriceImpactDict(amount_in, reserve_in, reserve_out,
                             AmountOut(amount_in, reserve_in, reserve_out)))]

\* lines 257-259: except Exception -> log, return None
PriceImpactExcept(body) ==
    IF body.raised THEN [raised |-> FALSE, value |-> None] ELSE body

\* lines 233-259, as [raised, value]
PriceImpactCallResult(amount_in, reserve_in, reserve_out) ==
    PriceImpactExcept(PriceImpactBody(amount_in, reserve_in, reserve_out))

\* lines 233-259: None, or <<the result dict>>
calculate_price_impact(amount_in, reserve_in, reserve_out) ==
    PriceImpactCallResult(amount_in, reserve_in, reserve_out).value

----------------------------------------------------------------------------
(* simulate_arbitrage_trade *)

\* the keys of opportunity the body reads (lines 152-218, 264-266)
SimulateKeys ==
    {"buy_reserve0", "buy_reserve1", "sell_reserve0", "sell_reserve1",
     "buy_exchange", "sell_exchange", "buy_price", "sell_price",
     "block_number", "timestamp", "base_token", "quote_token", "spread_bps"}

\* lines 261-266; the text of the note without its formatted spread
generate_execution_notes(opportunity, is_profitable) ==
    IF is_profitable THEN "Profitable arbitrage"
    ELSE "Unprofitable due to gas costs"

\* `trade_amount_base or min(...)`: an explicit 0 counts as no size
TradeAmountFalsy(opportunity, trade_amount_base) ==
    IF trade_amount_base = None \/ RIsZero(trade_amount_base[1])
    THEN RMin(RMul(opportunity.buy_reserve0, [n |-> 1, d |-> 10]),
              RMul(opportunity.sell_reserve0, [n |-> 1, d |-> 10]))
    ELSE trade_amount_base[1]

IsProfitableOrZero(net_profit) == RGe(net_profit, RInt(0))

\* line 192
IsProfitable(net_profit) == RGt(net_profit, RInt(0))

\* an explicit size is cut down to what the smaller pool holds
TradeAmountWithinReserves(opportunity, trade_amount_base) ==
    IF trade_amount_base = None
    THEN RMin(RMul(opportunity.buy_reserve0, [n |-> 1, d |-> 10]),
              RMul(opportunity.sell_reserve0, [n |-> 1, d |-> 10]))
    ELSE RMin(trade_amount_base[1], RMin(opportunity.buy_reserve0, opportunity.sell_reserve0))

\* line 149-154
TradeAmount(opportunity, trade_amount_base) ==
    IF trade_amount_base = None
    THEN RMin(RMul(opportunity.buy_reserve0, [n |-> 1, d |-> 10]),
              RMul(opportunity.sell_reserve0, [n |-> 1, d |-> 10]))
    ELSE trade_amount_base[1]

NetProfitGasAdded(gross_profit, gas_cost_usd) == RAdd(gross_profit, gas_cost_usd)

\* line 176
NetProfit(gross_profit, gas_cost_usd) == RSub(gross_profit, gas_cost_usd)

RoiAsFraction(net_profit, cost_to_buy) ==
    IF RGt(cost_to_buy, RInt(0)) THEN RDiv(net_profit, cost_to_buy) ELSE RInt(0)

\* line 195
Roi(net_profit, cost_to_buy) ==
    IF RGt(cost_to_buy, RInt(0))
    THEN RMul(RDiv(net_profit, cost_to_buy), RInt(100))
    ELSE RInt(0)

\* line 161 and 165
FeeMultiplier(fee_bps) == RSub(RInt(1), RDiv(RInt(fee_bps), RInt(10000)))

\* an undefined impact recorded as the loss of the whole amount
ImpactBpsFullLoss(price_impact) ==
    IF price_impact # None THEN price_impact[1].price_impact_bps ELSE RInt(-10000)

\* lines 216-217: price_impact['price_impact_bps'] if price_impact else 0
ImpactBps(price_impact) ==
    IF price_impact # None THEN price_impact[1].price_impact_bps ELSE RInt(0)

\* lines 156-219 on an opportunity that has every key
SimulateResult(opportunity, trade_amount_arg) ==
    LET trade_amount_base == TradeAmount(opportunity, trade_amount_arg)
        buy_fee_bps == get_exchange_fee(opportunity.buy_exchange)
        sell_fee_bps == get_exchange_fee(opportunity.sell_exchange)
        amount_after_buy == RMul(trade_amount_base, FeeMultiplier(buy_fee_bps))
        amount_received == RMul(RMul(amount_after_buy, opportunity.sell_price),
                                FeeMultiplier(sell_fee_bps))
        cost_to_buy == RMul(trade_amount_base, opportunity.buy_price)
        gross_profit == RSub(amount_received, cost_to_buy)
        gas_cost_usd == calculate_gas_cost(None)
        net_profit == NetProfit(gross_profit, gas_cost_usd)
        buy_price_impact == calculate_price_impact(trade_amount_base,
                                opportunity.buy_reserve0, opportunity.buy_reserve1)
        sell_price_impact == calculate_price_impact(amount_after_buy,
                                opportunity.sell_reserve0, opportunity.sell_reserve1)
        is_profitable == IsProfitable(net_profit)
        roi == Roi(net_profit, cost_to_buy)
    IN [opportunity_id |-> <<opportunity.block_number, opportunity.buy_exchange,
                             opportunity.sell_exchange>>,
        block_number |-> opportunity.block_number,
        timestamp |-> opportunity.timestamp,
        base_token |-> opportunity.base_token,
        quote_token |-> opportunity.quote_token,
        buy_exchange |-> opportunity.buy_exchange,
        sell_exchange |-> opportunity.sell_exchange,
        trade_amount_base |-> trade_amount_base,
        buy_price |-> opportunity.buy_price,
        sell_price |-> opportunity.sell_price,
        spread_bps |-> opportunity.spread_bps,
        gross_profit |-> gross_profit,
        gas_cost_usd |-> gas_cost_usd,
        net_profit |-> net_profit,
        is_profitable |-> is_profitable,
        roi_percentage |-> roi,
        buy_fee_bps |-> buy_fee_bps,
        sell_fee_bps |-> sell_fee_bps,
        buy_price_impact_bps |-> ImpactBps(buy_price_impact),
        sell_price_impact_bps |-> ImpactBps(sell_price_impact),
        execution_notes |-> generate_execution_notes(opportunity, is_profitable)]

\* lines 148-219: the body inside the try.  It raises KeyError when the
\* opportunity lacks a key it reads; fault stands for any other exception
\* raised inside the body.  The result is [raised, value].
SimulateBody(opportunity, trade_amount_arg, fault) ==
    IF fault \/ ~(SimulateKeys \subseteq DOMAIN opportunity)
    THEN [raised |-> TRUE, value |-> None]
    ELSE [raised |-> FALSE, value |-> Some(SimulateResult(opportunity, trade_amount_arg))]

SimulateNoExcept(body) == body

\* lines 221-223: except Exception -> log, return None
SimulateExcept(body) ==
    IF body.raised THEN [raised |-> FALSE, value |-> None] ELSE body

\* lines 144-223
simulate_arbitrage_trade(opportunity, trade_amount_arg, fault) ==
    SimulateExcept(SimulateBody(opportunity, trade_amount_arg, fault))

----------------------------------------------------------------------------
(* pandas frames and get_opportunity_summary *)

\* pd.DataFrame(list of dicts): the columns are the keys of the dicts, so the
\* frame of an empty list has no column at all
DataFrame(list) ==
    [columns |-> UNION {DOMAIN list[k] : k \in 1..Len(list)}, rows |-> list]

\* the {} of line 341
EmptyDict == <<>>

RECURSIVE ColumnSum(_, _, _)
ColumnSum(rows, column, k) ==
    IF k > Len(rows) THEN RInt(0)
    ELSE RAdd(rows[k][column], ColumnSum(rows, column, k + 1))

RECURSIVE ColumnMax(_, _, _)
ColumnMax(rows, column, k) ==
    IF k = Len(rows) THEN rows[k][column]
    ELSE LET rest == ColumnMax(rows, column, k + 1)
         IN IF RLt(rows[k][column], rest) THEN rest ELSE rows[k][column]

ColumnMean(rows, column) == RDiv(ColumnSum(rows, column, 1), RInt(Len(rows)))

\* len(df_trades[df_trades['is_profitable'] == True])
ProfitableCount(rows) == Cardinality({k \in 1..Len(rows) : rows[k].is_profitable})

\* lines 324-337: the body inside the try.  Lines 327-328 index the column
\* is_profitable whatever the length of the frame, which raises KeyError on a
\* frame without that column; lines 329-334 index a column only when the
\* frame has rows.
SummaryBody(df_opportunities, df_trades) ==
    LET n_opps == Len(df_opportunities.rows)
        n_trades == Len(df_trades.rows)
    IN IF \/ "is_profitable" \notin df_trades.columns
          \/ (n_opps > 0 /\ "spread_bps" \notin df_opportunities.columns)
          \/ (n_trades > 0 /\ ~({"gross_profit", "net_profit", "gas_cost_usd",
                                 "roi_percentage"} \subseteq df_trades.columns))
       THEN [raised |-> TRUE, value |-> EmptyDict]
       ELSE [raised |-> FALSE, value |->
              [total_opportunities |-> RInt(n_opps),
               total_trades |-> RInt(n_trades),
               profitable_trades |-> RInt(ProfitableCount(df_trades.rows)),
               profitable_rate |->
                   IF n_trades > 0
                   THEN RDiv(RInt(ProfitableCount(df_trades.rows)), RInt(n_trades))
                   ELSE RInt(0),
               avg_spread_bps |->
                   IF n_opps > 0 THEN ColumnMean(df_opportunities.rows, "spread_bps")
                   ELSE RInt(0),
               max_spread_bps |->
                   IF n_opps > 0 THEN ColumnMax(df_opportunities.rows, "spread_bps", 1)
                   ELSE RInt(0),
               total_gross_profit |->
                   IF n_trades > 0 THEN ColumnSum(df_trades.rows, "gross_profit", 1)
                   ELSE RInt(0),
               total_net_profit |->
                   IF n_trades > 0 THEN ColumnSum(df_trades.rows, "net_profit", 1)
                   ELSE RInt(0),
               total_gas_costs |->
                   IF n_trades > 0 THEN ColumnSum(df_trades.rows, "gas_cost_usd", 1)
                   ELSE RInt(0),
               avg_roi |->
                   IF n_trades > 0 THEN ColumnMean(df_trades.rows, "roi_percentage")
                   ELSE RInt(0)]]

\* lines 339-341: except Exception -> log, return {}
SummaryExcept(body) ==
    IF body.raised THEN [raised |-> FALSE, value |-> EmptyDict] ELSE body

\* lines 320-341
get_opportunity_summary(df_opportunities, df_trades) ==
    SummaryExcept(SummaryBody(df_opportunities, df_trades))

----------------------------------------------------------------------------
(* analyze_historical_opportunities *)

\* line 305: the progress bar is updated every 100 blocks
ProgressEvery == 100

\* the pools of the model's database.  Blocks of odd number hold pools of
\* 100 WETH, blocks of even number pools of 10,000 WETH; the Uniswap pool
\* prices WETH at 2 USDC and the SushiSwap pool at 2.5; a third Sync event
\* reports a drained Uniswap pool (reserve0 = 0).
RunRows(b) ==
    IF b % 2 = 1
    THEN {PoolRow(PairUniUSDC, 10000, 200000, b),
          PoolRow(PairSushiUSDC, 19003, 475075, b),
          PoolRow(PairUniUSDC, 0, 200000, b)}
    ELSE {PoolRow(PairUniUSDC, 1000000, 20000000, b),
          PoolRow(PairSushiUSDC, 1900300, 47507500, b),
          PoolRow(PairUniUSDC, 0, 20000000, b)}

\* the Sync events of a block in which both venues trade WETH/USDC and
\* WETH/DAI; the DAI pools price WETH at 2 and at 3
FullSnapshot(b) ==
    IF b % 2 = 1
    THEN <<PoolRow(PairUniUSDC, 10000, 200000, b), PoolRow(PairSushiUSDC, 19003, 475075, b),
           PoolRow(PairUniDAI, 10000, 20000, b), PoolRow(PairSushiDAI, 19003, 57009, b)>>
    ELSE <<PoolRow(PairUniUSDC, 1000000, 20000000, b),
           PoolRow(PairSushiUSDC, 1900300, 47507500, b),
           PoolRow(PairUniDAI, 1000000, 2000000, b),
           PoolRow(PairSushiDAI, 1900300, 5700900, b)>>

\* the DAI pools emit their first Sync events in the last block of the database
FullSnapshots(b) == IF b = MaxBlock THEN {ProviderRows(FullSnapshot(b))} ELSE {}

\* the query returns every Sync event of the block once
EventSeqsUpTo(S, n) ==
    {rows \in SeqsUpTo(S, n) : \A i, j \in 1..Len(rows) : i # j => rows[i] # rows[j]}

\* what the session can yield for the query of block b
ProviderResponses(b) ==
    {ProviderError} \cup FullSnapshots(b)
        \cup {ProviderRows(rows) : rows \in EventSeqsUpTo(RunRows(b), MaxRunStates)}

\* the arguments of a run
RunFromBlocks == {1, MaxBlock}

RunToBlocks == 0..MaxBlock

RunMinSpreads == {None, Some(0), Some(5000)}

RangeStopExclusive(to) == to

\* line 291: range(from_block, to_block + 1) stops before to_block + 1
RangeStop(to) == to + 1

ListPrepend(list, item) == <<item>> \o list

\* lines 297 and 302: list.append
ListAppend(list, item) == Append(list, item)

\* line 301: `if trade_simulation:` - a dict with keys is truthy, None is not
Truthy(trade_simulation) == trade_simulation # None

\* the opportunity is kept only together with its simulation
CollectOneOnlySimulated(acc, opportunity, sim) ==
    IF sim.raised
    THEN [acc EXCEPT !.raised = TRUE]
    ELSE IF Truthy(sim.value)
    THEN [acc EXCEPT !.opps = ListAppend(acc.opps, opportunity),
                     !.trades = ListAppend(acc.trades, sim.value[1])]
    ELSE [acc EXCEPT !.nones = acc.nones + 1]

\* lines 297-302: one opportunity is appended, and its simulation when
\* simulate returned one; raised when simulate raises.  acc is
\* [opps, trades, nones, raised].
CollectOne(acc, opportunity, sim) ==
    IF sim.raised
    THEN [acc EXCEPT !.opps = ListAppend(acc.opps, opportunity), !.raised = TRUE]
    ELSE IF Truthy(sim.value)
    THEN [acc EXCEPT !.opps = ListAppend(acc.opps, opportunity),
                     !.trades = ListAppend(acc.trades, sim.value[1])]
    ELSE [acc EXCEPT !.opps = ListAppend(acc.opps, opportunity),
                     !.nones = acc.nones + 1]

\* lines 296-302: the loop over the block's opportunities, from the k-th on;
\* an exception ends it
RECURSIVE SimulateAll(_, _, _, _)
SimulateAll(opportunities, k, faults, acc) ==
    IF k > Len(opportunities) \/ acc.raised THEN acc
    ELSE SimulateAll(opportunities, k + 1, faults,
             CollectOne(acc, opportunities[k],
                 simulate_arbitrage_trade(opportunities[k], None, k \in faults)))

ExceptionPropagates == "propagate"

\* lines 308-310: except Exception -> log, continue
OnBlockException == "continue"

\* lines 271-276 and the first evaluation of line 291
RunStart ==
    /\ api = "run"
    /\ pc = "idle"
    /\ \E f \in RunFromBlocks, t \in RunToBlocks, m \in RunMinSpreads :
          /\ from_block' = f
          /\ to_block' = t
          /\ min_spread_bps' = m
          /\ block_number' = f
    /\ pc' = "loop"
    /\ all_opportunities' = <<>>
    /\ all_trades' = <<>>
    /\ UNCHANGED <<self_min_spread_bps, visited, provFailed, handled, simNone,
                   summary, api, args, fetchVars, ret>>

\* which call of the loop body raised into the runner's except, if any
BlockCause(detected, body, progress_fault) ==
    IF detected.raised THEN "detect"
    ELSE IF body.raised THEN "simulate"
    ELSE IF progress_fault THEN "progress"
    ELSE "none"

\* lines 296-310 on the block's detected opportunities: the end of the iteration
BlockEnd(response, body, cause) ==
    /\ all_opportunities' = body.opps
    /\ all_trades' = body.trades
    /\ simNone' = body.nones
    /\ visited' = Append(visited, block_number)
    /\ provFailed' = IF response.ok THEN provFailed
                     ELSE provFailed \cup {block_number}
    /\ handled' = IF cause = "none" THEN handled
                  ELSE handled \cup {<<block_number, cause>>}
    /\ IF cause # "none" /\ OnBlockException = "propagate"
       THEN pc' = "aborted" /\ block_number' = block_number
       ELSE pc' = "loop" /\ block_number' = block_number + 1

RunAccEmptied == [opps |-> <<>>, trades |-> <<>>, nones |-> simNone, raised |-> FALSE]

\* lines 275-276 and 297-302: the lists the loop body appends to
RunAcc == [opps |-> all_opportunities, trades |-> all_trades,
           nones |-> simNone, raised |-> FALSE]

\* line 305
ProgressDue == (block_number - from_block) % ProgressEvery = 0

BlockBody(response, detected, progress_fault, body) ==
    BlockEnd(response, body, BlockCause(detected, body, progress_fault))

BlockDetected(response, detected) ==
    \E faults \in SUBSET (1..Len(detected.opps)),
       progress_fault \in (IF ProgressDue THEN BOOLEAN ELSE {FALSE}) :
        BlockBody(response, detected, progress_fault,
                  IF detected.raised THEN RunAcc
                  ELSE SimulateAll(detected.opps, 1, faults, RunAcc))

\* lines 291-310: one iteration of the block loop.  The session yields the
\* rows of the block or fails; simulate may fail on any opportunity
\* (faults); the progress bar, when due, may raise (progress_fault).
ProcessBlock ==
    /\ pc = "loop"
    /\ block_number < RangeStop(to_block)
    /\ \E response \in ProviderResponses(block_number) :
          BlockDetected(response,
              detect_arbitrage_opportunities(self_min_spread_bps, response, block_number,
                  Some(PyOr(min_spread_bps, self_min_spread_bps))))
    /\ UNCHANGED <<self_min_spread_bps, from_block, to_block, min_spread_bps,
                   summary, api, args, fetchVars, ret>>

\* lines 312-318: the range is exhausted; the lists become frames
RunReturn ==
    /\ pc = "loop"
    /\ ~(block_number < RangeStop(to_block))
    /\ pc' = "done"
    /\ ret' = Some([df_opportunities |-> DataFrame(all_opportunities),
                    df_trades |-> DataFrame(all_trades)])
    /\ UNCHANGED <<self_min_spread_bps, from_block, to_block, min_spread_bps,
                   block_number, all_opportunities, all_trades, visited,
                   provFailed, handled, simNone, summary, api, args, fetchVars>>

\* the caller hands the two frames of the run to get_opportunity_summary
Summarize ==
    /\ pc = "done"
    /\ summary' = Some(get_opportunity_summary(ret[1].df_opportunities,
                                               ret[1].df_trades))
    /\ pc' = "summarized"
    /\ UNCHANGED <<self_min_spread_bps, from_block, to_block, min_spread_bps,
                   block_number, all_opportunities, all_trades, visited,
                   provFailed, handled, simNone, api, args, fetchVars, ret>>

----------------------------------------------------------------------------
(* Direct calls of simulate_arbitrage_trade *)

WithoutKey(dict, key) == [k \in DOMAIN dict \ {key} |-> dict[k]]

\* the Opportunity detect emits for the two pools of block b
OpportunityOfBlock(b) ==
    detect_arbitrage_opportunities(DefaultMinSpreadBps,
        ProviderRows(<<PoolRow(PairUniUSDC, IF b % 2 = 1 THEN 10000 ELSE 1000000,
                               IF b % 2 = 1 THEN 200000 ELSE 20000000, b),
                       PoolRow(PairSushiUSDC, IF b % 2 = 1 THEN 19003 ELSE 1900300,
                               IF b % 2 = 1 THEN 475075 ELSE 47507500, b)>>),
        b, None).opps[1]

\* well-formed opportunities, and each of them with one key missing
SimOpportunities ==
    LET good == {OpportunityOfBlock(1), OpportunityOfBlock(2)}
    IN good \cup {WithoutKey(o, key) : o \in good, key \in DOMAIN OpportunityOfBlock(1)}

\* the Opportunity detect emits for a Uniswap V2 pool of 1000 WETH and
\* 2,000,000 USDC (price 2000) and a SushiSwap pool of 100.3 WETH and
\* 202,606 USDC (price 2020)
ExampleOpportunity ==
    detect_arbitrage_opportunities(DefaultMinSpreadBps,
        ProviderRows(<<PoolRow(PairUniUSDC, 100000, 2000000000, 1),
                       PoolRow(PairSushiUSDC, 10030, 202606000, 1)>>),
        1, None).opps[1]

\* the same opportunity sold on SushiSwap or on a venue the fee table does
\* not hold
ExampleOpportunities ==
    {[ExampleOpportunity EXCEPT !.sell_exchange = s] : s \in {"SushiSwap", "Curve"}}

\* the same opportunity between other venues, carrying drained pools (all
\* reserves 0)
DrainedOpportunities ==
    {[ExampleOpportunity EXCEPT !.buy_exchange = b, !.sell_exchange = s,
                                !.buy_reserve0 = RInt(0), !.buy_reserve1 = RInt(0),
                                !.sell_reserve0 = RInt(0), !.sell_reserve1 = RInt(0)] :
        b \in {"Uniswap V2", "Balancer"}, s \in {"SushiSwap", "Curve"}}

\* the example opportunity whose buy pool only is drained
HalfDrainedOpportunity ==
    [ExampleOpportunity EXCEPT !.buy_reserve0 = RInt(0), !.buy_reserve1 = RInt(0)]

\* the size at which the example's gross profit equals the gas cost of 20:
\* 20 / (2020 * 0.997 * 0.997 - 2000)
BreakEvenAmount == [n |-> 1000000, d |-> 394909]

SimInputs ==
    [opportunity : SimOpportunities,
     trade_amount_base : {None, Some(RInt(0))},
     fault : BOOLEAN]
    \cup [opportunity : ExampleOpportunities,
          trade_amount_base : {Some(RInt(100))},
          fault : {FALSE}]
    \cup [opportunity : DrainedOpportunities,
          trade_amount_base : {None, Some(RInt(100)), Some(BreakEvenAmount)},
          fault : {FALSE}]
    \cup [opportunity : {HalfDrainedOpportunity},
          trade_amount_base : {Some(RInt(100))},
          fault : {FALSE}]

SimulateCall ==
    /\ api = "simulate"
    /\ ret = None
    /\ ret' = Some(simulate_arbitrage_trade(args.opportunity, args.trade_amount_base,
                                            args.fault))
    /\ UNCHANGED <<self_min_spread_bps, runVars, api, args, fetchVars>>

----------------------------------------------------------------------------
(* Direct calls of calculate_price_impact and calculate_gas_cost *)

PriceImpactInputs ==
    [amount_in : {RInt(0), RInt(10)},
     reserve_in : {RInt(0), RInt(1000), [n |-> 5, d |-> 2]},
     reserve_out : {RInt(0), RInt(2000000), RInt(7)}]
    \cup [amount_in : {RInt(-1000)},
          reserve_in : {RInt(0), RInt(1000)},
          reserve_out : {RInt(0), RInt(2000000), RInt(7)}]
    \cup [amount_in : {[n |-> 1, d |-> 2]},
          reserve_in : {RInt(0), [n |-> 5, d |-> 2]},
          reserve_out : {RInt(0), RInt(7)}]

PriceImpactCall ==
    /\ api = "price_impact"
    /\ ret = None
    /\ ret' = Some(PriceImpactCallResult(args.amount_in, args.reserve_in,
                                         args.reserve_out))
    /\ UNCHANGED <<self_min_spread_bps, runVars, api, args, fetchVars>>

GasCostInputs == [gas_price_gwei : {None, Some(0), Some(1), Some(20), Some(50)}]

GasCostCall ==
    /\ api = "gas_cost"
    /\ ret = None
    /\ ret' = Some(calculate_gas_cost(args.gas_price_gwei))
    /\ UNCHANGED <<self_min_spread_bps, runVars, api, args, fetchVars>>

----------------------------------------------------------------------------
(* The analyzer: a backtest run followed by its summary, or a direct call *)

Init ==
    /\ self_min_spread_bps \in SelfMinSpreads
    /\ RunIdle
    /\ FetchIdle
    /\ ret = None
    /\ \/ api = "run" /\ args = None
       \/ api = "simulate" /\ args \in SimInputs
       \/ api = "price_impact" /\ args \in PriceImpactInputs
       \/ api = "gas_cost" /\ args \in GasCostInputs

Next ==
    \/ RunStart \/ ProcessBlock \/ RunReturn \/ Summarize
    \/ SimulateCall \/ PriceImpactCall \/ GasCostCall

Spec == Init /\ [][Next]_vars

\* the run is one synchronous call: once started it runs to its return
FairSpec == Spec /\ WF_vars(ProcessBlock) /\ WF_vars(RunReturn)

----------------------------------------------------------------------------
(* EtherscanFetcher.get_swap_events and get_sync_events: the batching loop.
   The two generators run the same loop (lines 127-167 and 179-218); api
   names the one that is called. *)

FetchInputs ==
    [from_block : 0..MaxFetchBlock, to_block : 0..MaxFetchBlock,
     batch_size : 1..MaxBatchSize]

Min(a, b) == IF a <= b THEN a ELSE b

\* lines 142 and 194: while current_block < to_block
LoopContinues == current_block < args.to_block

\* lines 143 and 195
EndBlock == Min(current_block + args.batch_size - 1, args.to_block)

\* lines 127 and 179: current_block = from_block
InitFetch ==
    /\ self_min_spread_bps = DefaultMinSpreadBps
    /\ RunIdle
    /\ api \in {"get_swap_events", "get_sync_events"}
    /\ args \in FetchInputs
    /\ ret = None
    /\ fetch_pc = "loop"
    /\ current_block = args.from_block
    /\ requests = <<>>

\* lines 143-167 and 195-218: one iteration.  get_logs is asked for
\* [current_block, end_block]; the request succeeds, its events are yielded
\* and the loop moves on (lines 160-161, 212-213), or something in the try
\* raises and the handler moves on as well (lines 163-167, 215-218).
FetchBatch ==
    /\ fetch_pc = "loop"
    /\ LoopContinues
    /\ \E ok \in BOOLEAN :
          requests' = Append(requests, [from_block |-> current_block,
                                        to_block |-> EndBlock, ok |-> ok])
    /\ current_block' = EndBlock + 1
    /\ UNCHANGED <<self_min_spread_bps, runVars, api, args, ret, fetch_pc>>

\* the loop condition fails: the generator is exhausted
FetchReturn ==
    /\ fetch_pc = "loop"
    /\ ~LoopContinues
    /\ fetch_pc' = "done"
    /\ UNCHANGED <<self_min_spread_bps, runVars, api, args, ret, current_block, requests>>

FetchNext == FetchBatch \/ FetchReturn

SpecFetch == InitFetch /\ [][FetchNext]_vars

----------------------------------------------------------------------------
(* Properties of analyze_historical_opportunities, get_opportunity_summary
   and simulate_arbitrage_trade *)

RunReturned == api = "run" /\ pc \in {"done", "summarized"}

\* range(from_block, to_block + 1) as a sequence
FullRange ==
    [k \in 1..(IF to_block >= from_block THEN to_block - from_block + 1 ELSE 0)
        |-> from_block + k - 1]

\* a block of the run has failed: its query failed inside detect, or a call
\* of the loop body raised into the runner's handler
BlockFailed == provFailed # {} \/ handled # {}

\* C5: when the processing of a block fails (the provider's query fails, or
\* a call of the loop body raises), the failure is caught, the loop goes on
\* with the next block number, every later block is still processed and the
\* run returns its collected results; one block never aborts the range.
C5_FailureIsolated ==
    BlockFailed ~> (RunReturned /\ visited = FullRange)

\* a run has returned after a failure at a block that is not its last one
C5_Witness ==
    /\ RunReturned
    /\ visited = FullRange
    /\ \E b \in from_block..(to_block - 1) :
          b \in provFailed \/ \E c \in {"detect", "simulate", "progress"} : <<b, c>> \in handled

\* the provider failed at every block of a non-empty range
ProviderDownWholeRun ==
    /\ api = "run"
    /\ visited = FullRange
    /\ visited # <<>>
    /\ provFailed = {visited[k] : k \in 1..Len(visited)}

\* C6: when the provider is unreachable for the entire run, the failure
\* propagates to the caller: the run does not return normally with empty
\* opportunity and trade collections.
C6_ProviderDownPropagates ==
    ProviderDownWholeRun =>
        ~(/\ pc \in {"done", "summarized"}
          /\ ret[1].df_opportunities.rows = <<>>
          /\ ret[1].df_trades.rows = <<>>)

\* the summary of a run that collected no trade
SummaryOfNoTrades == api = "run" /\ pc = "summarized" /\ all_trades = <<>>

\* C7: get_opportunity_summary on an empty trades collection returns a
\* summary whose profitable_rate and avg_roi are 0, like every other mean,
\* rate and sum over an empty collection; it neither raises nor returns an
\* empty summary.
C7_EmptyTradesSummaryZero ==
    SummaryOfNoTrades =>
        /\ ~summary[1].raised
        /\ {"total_trades", "profitable_trades", "profitable_rate", "total_gross_profit",
            "total_net_profit", "total_gas_costs", "avg_roi"}
               \subseteq DOMAIN summary[1].value
        /\ \A key \in {"total_trades", "profitable_trades", "profitable_rate",
                       "total_gross_profit", "total_net_profit", "total_gas_costs",
                       "avg_roi"} :
              RIsZero(summary[1].value[key])

\* C8: the run visits the block numbers from_block..to_block, each exactly
\* once and in ascending order, with one call of detect per visited block,
\* and visits no block when from_block > to_block.
C8_VisitsRangeInOrder ==
    api = "run" =>
        /\ \A k \in 1..Len(visited) : visited[k] = from_block + k - 1
        /\ pc = "loop" => block_number = from_block + Len(visited)
        /\ pc \in {"done", "summarized"} => visited = FullRange

\* a run over several blocks has returned
C8_Witness == RunReturned /\ Len(visited) >= 2 /\ visited = FullRange

\* the entries of a collection are in non-decreasing block_number order
BlockAscending(list) ==
    \A i \in 1..Len(list), j \in 1..Len(list) :
        i < j => list[i].block_number <= list[j].block_number

\* C9: at every point of the run and at its end, the opportunities and the
\* trades are each in non-decreasing block_number order.
C9_OutputsBlockAscending ==
    BlockAscending(all_opportunities) /\ BlockAscending(all_trades)

\* both collections hold entries of two different blocks
C9_Witness ==
    /\ RunReturned
    /\ \E i, j \in 1..Len(all_opportunities) :
          all_opportunities[i].block_number < all_opportunities[j].block_number
    /\ \E i, j \in 1..Len(all_trades) :
          all_trades[i].block_number < all_trades[j].block_number

\* the keys of a TradeSimulation (lines 192-215)
IsTradeSimulation(v) ==
    {"opportunity_id", "net_profit", "is_profitable", "execution_notes"} \subseteq DOMAIN v

SimulateReturned == api = "simulate" /\ ret # None

Malformed(opportunity) == ~(SimulateKeys \subseteq DOMAIN opportunity)

\* C10: simulate_arbitrage_trade never raises: for any opportunity, one
\* missing required keys included, it returns a TradeSimulation or None (None
\* for the malformed one), and the run keeps a None out of its trades.
C10_SimulateNeverRaises ==
    /\ SimulateReturned =>
          /\ ~ret[1].raised
          /\ ret[1].value # None => IsTradeSimulation(ret[1].value[1])
          /\ (Malformed(args.opportunity) \/ args.fault) => ret[1].value = None
    /\ api = "run" =>
          /\ \A b \in 0..to_block : <<b, "simulate">> \notin handled
          /\ \A k \in 1..Len(all_trades) : IsTradeSimulation(all_trades[k])
          /\ pc # "idle" => Len(all_trades) + simNone = Len(all_opportunities)

\* a direct call with an opportunity missing a required key has returned None
C10_Witness ==
    /\ SimulateReturned
    /\ Malformed(args.opportunity)
    /\ ~args.fault
    /\ ret[1].value = None

----------------------------------------------------------------------------
(* Properties of the trade simulation and of the AMM price impact *)

\* a direct call of simulate has returned a TradeSimulation
SimulatedTrade == SimulateReturned /\ ret[1].value # None

TradeOf == ret[1].value[1]

NetProfitConsistent(trade) ==
    /\ REq(RAdd(trade.net_profit, trade.gas_cost_usd), trade.gross_profit)
    /\ trade.is_profitable <=> trade.net_profit.n > 0

\* C11: every TradeSimulation simulate returns has net_profit = gross_profit
\* - gas_cost_usd exactly and is_profitable exactly when net_profit > 0; a
\* net_profit of 0 is not profitable.
C11_NetProfitAndProfitability ==
    /\ SimulatedTrade => NetProfitConsistent(TradeOf)
    /\ \A k \in 1..Len(all_trades) : NetProfitConsistent(all_trades[k])

\* a simulated trade whose net profit is exactly 0
C11_Witness ==
    /\ SimulatedTrade
    /\ TradeOf.net_profit.n = 0
    /\ ~RIsZero(TradeOf.trade_amount_base)
    /\ ~TradeOf.is_profitable

PriceImpactReturned == api = "price_impact" /\ ret # None

\* C12: calculate_price_impact with reserve_in = 0 or reserve_out = 0 returns
\* None for every amount_in and never raises.
C12_ZeroReserveNoResult ==
    (PriceImpactReturned /\ (args.reserve_in.n = 0 \/ args.reserve_out.n = 0)) =>
        ~ret[1].raised /\ ret[1].value = None

\* a call with an empty input reserve and a non-zero amount has returned
C12_Witness ==
    /\ PriceImpactReturned
    /\ args.reserve_in.n = 0
    /\ args.reserve_out.n > 0
    /\ args.amount_in.n > 0
    /\ ret[1].value = None

\* positive reserves and a non-negative amount
PositivePool ==
    /\ PriceImpactReturned
    /\ args.reserve_in.n > 0
    /\ args.reserve_out.n > 0
    /\ args.amount_in.n >= 0

\* C13: for positive reserves and amount_in >= 0 the result has
\* amount_out = reserve_out * amount_in / (reserve_in + amount_in), which keeps
\* the product (reserve_in + amount_in) * (reserve_out - amount_out) equal to
\* reserve_in * reserve_out, price_before = reserve_out / reserve_in,
\* price_after = (reserve_out - amount_out) / (reserve_in + amount_in),
\* price_impact = (price_after - price_before) / price_before and
\* price_impact_bps = price_impact * 10000.
C13_ConstantProduct ==
    PositivePool =>
        /\ ~ret[1].raised
        /\ ret[1].value # None
        /\ LET r == ret[1].value[1]
               new_in == RAdd(args.reserve_in, args.amount_in)
               new_out == RSub(args.reserve_out, r.amount_out)
           IN /\ REq(r.amount_in, args.amount_in)
              /\ REq(RMul(r.amount_out, new_in), RMul(args.reserve_out, args.amount_in))
              /\ REq(RMul(new_in, new_out), RMul(args.reserve_in, args.reserve_out))
              /\ REq(RMul(r.price_before, args.reserve_in), args.reserve_out)
              /\ REq(RMul(r.price_after, new_in), new_out)
              /\ REq(RMul(r.price_impact, r.price_before),
                     RSub(r.price_after, r.price_before))
              /\ REq(r.price_impact_bps, RMul(r.price_impact, RInt(10000)))

\* a swap of a positive amount against positive reserves has returned
C13_Witness ==
    /\ PositivePool
    /\ args.amount_in.n > 0
    /\ ret[1].value # None
    /\ ret[1].value[1].amount_out.n > 0

\* x is within tol of v
Near(x, v, tol) == RGe(tol, RSub(x, v)) /\ RGe(tol, RSub(v, x))

\* the decimal number units / 100
Hundredths(units) == RNorm(units, 100)

\* the spec's example: reserve_in = 1000, reserve_out = 2,000,000, amount_in = 10
ImpactExample ==
    /\ PriceImpactReturned
    /\ args.reserve_in = RInt(1000)
    /\ args.reserve_out = RInt(2000000)
    /\ args.amount_in = RInt(10)

\* C14 as stated: the example yields amount_out ~ 19801.98, price_before =
\* 2000, price_after ~ 1961.58 and price_impact_bps ~ -192.1.
C14_ImpactExampleAsStated ==
    ImpactExample =>
        /\ ret[1].value # None
        /\ Near(ret[1].value[1].amount_out, Hundredths(1980198), Hundredths(1))
        /\ REq(ret[1].value[1].price_before, RInt(2000))
        /\ Near(ret[1].value[1].price_after, Hundredths(196158), Hundredths(1))
        /\ Near(ret[1].value[1].price_impact_bps, Hundredths(-19210), Hundredths(10))

\* C14 (amended): the example yields amount_out ~ 19801.98, price_before =
\* 2000, price_after ~ 1960.59 and price_impact_bps ~ -197.0.
C14_ImpactExample ==
    ImpactExample =>
        /\ ret[1].value # None
        /\ Near(ret[1].value[1].amount_out, Hundredths(1980198), Hundredths(1))
        /\ REq(ret[1].value[1].price_before, RInt(2000))
        /\ Near(ret[1].value[1].price_after, Hundredths(196059), Hundredths(1))
        /\ Near(ret[1].value[1].price_impact_bps, Hundredths(-19700), Hundredths(10))

\* the example call has returned a result
C14_Witness == ImpactExample /\ ret[1].value # None /\ ~ret[1].raised

\* the share of an amount left after a fee of fee_bps
AfterFee(amount, fee_bps) == RMul(amount, RNorm(10000 - fee_bps, 10000))

\* C15: a TradeSimulation has gross_profit = amount_received - cost_to_buy
\* with amount_after_buy = trade_amount_base * (1 - buy_fee_bps/10000),
\* amount_received = amount_after_buy * sell_price * (1 - sell_fee_bps/10000)
\* and cost_to_buy = trade_amount_base * buy_price; its roi is net_profit /
\* cost_to_buy * 100 when cost_to_buy > 0 and 0 otherwise.
C15_TwoLegResult ==
    SimulatedTrade =>
        LET t == TradeOf
            amount_after_buy == AfterFee(t.trade_amount_base, t.buy_fee_bps)
            amount_received == AfterFee(RMul(amount_after_buy, t.sell_price), t.sell_fee_bps)
            cost_to_buy == RMul(t.trade_amount_base, t.buy_price)
        IN /\ REq(t.buy_price, args.opportunity.buy_price)
           /\ REq(t.sell_price, args.opportunity.sell_price)
           /\ REq(RAdd(t.gross_profit, cost_to_buy), amount_received)
           /\ IF cost_to_buy.n > 0
              THEN REq(RMul(t.roi_percentage, cost_to_buy), RMul(t.net_profit, RInt(100)))
              ELSE RIsZero(t.roi_percentage)

\* a trade of a positive size with a non-zero return on its cost
C15_Witness ==
    /\ SimulatedTrade
    /\ TradeOf.trade_amount_base.n > 0
    /\ TradeOf.roi_percentage.n > 0
    /\ TradeOf.net_profit.n > 0

\* the spec's example: 100 base units bought at 2000 and sold at 2020, both
\* fees 30 bps, gas cost 20
TradeExample ==
    /\ SimulatedTrade
    /\ args.trade_amount_base = Some(RInt(100))
    /\ args.opportunity.buy_price = RInt(2000)
    /\ args.opportunity.sell_price = RInt(2020)
    /\ TradeOf.buy_fee_bps = 30
    /\ TradeOf.sell_fee_bps = 30
    /\ TradeOf.gas_cost_usd = RInt(20)

\* C16 as stated: the example yields cost_to_buy = 200,000, amount_received ~
\* 200,836.8, gross_profit ~ 836.8, net_profit ~ 816.8 and is_profitable.
C16_TradeExampleAsStated ==
    TradeExample =>
        /\ REq(RMul(TradeOf.trade_amount_base, TradeOf.buy_price), RInt(200000))
        /\ Near(RAdd(TradeOf.gross_profit, RInt(200000)), Hundredths(20083680), Hundredths(10))
        /\ Near(TradeOf.gross_profit, Hundredths(83680), Hundredths(10))
        /\ Near(TradeOf.net_profit, Hundredths(81680), Hundredths(10))
        /\ TradeOf.is_profitable

\* C16 (amended): the example yields cost_to_buy = 200,000, amount_received ~
\* 200,789.8, gross_profit ~ 789.8, net_profit ~ 769.8 and is_profitable.
C16_TradeExample ==
    TradeExample =>
        /\ REq(RMul(TradeOf.trade_amount_base, TradeOf.buy_price), RInt(200000))
        /\ Near(RAdd(TradeOf.gross_profit, RInt(200000)), Hundredths(20078980), Hundredths(10))
        /\ Near(TradeOf.gross_profit, Hundredths(78980), Hundredths(10))
        /\ Near(TradeOf.net_profit, Hundredths(76980), Hundredths(10))
        /\ TradeOf.is_profitable

\* the example has been simulated on pools with reserves
C16_Witness ==
    /\ TradeExample
    /\ args.opportunity.buy_reserve0.n > 0
    /\ args.opportunity.buy_exchange = "Uniswap V2"
    /\ args.opportunity.sell_exchange = "SushiSwap"

\* C17: without an explicit size the trade size is min(0.1 * buy_reserve0,
\* 0.1 * sell_reserve0); an explicit size, 0 included, is used and reported
\* as given.
C17_TradeSizing ==
    SimulatedTrade =>
        IF args.trade_amount_base = None
        THEN REq(RMul(TradeOf.trade_amount_base, RInt(10)),
                 RMin(args.opportunity.buy_reserve0, args.opportunity.sell_reserve0))
        ELSE REq(TradeOf.trade_amount_base, args.trade_amount_base[1])

\* an explicit size of 0 on pools with reserves has been simulated
C17_Witness ==
    /\ SimulatedTrade
    /\ args.trade_amount_base = Some(RInt(0))
    /\ args.opportunity.buy_reserve0.n > 0
    /\ args.opportunity.sell_reserve0.n > 0
    /\ RIsZero(TradeOf.trade_amount_base)

KnownVenues == {"Uniswap V2", "SushiSwap"}

\* the fee a TradeSimulation reports for a venue
FeeAsSpecified(venue, fee_bps) ==
    /\ venue = "Uniswap V2" => fee_bps = UniswapFeeBps
    /\ venue = "SushiSwap" => fee_bps = SushiswapFeeBps
    /\ venue \notin KnownVenues => fee_bps = 30

\* C19: the fee lookup never fails: a known venue has its configured fee, an
\* unknown venue 30 bps, and simulate on an opportunity naming an unknown
\* venue still returns a TradeSimulation with 30 bps for that leg.
C19_FeeLookupTotal ==
    SimulateReturned =>
        /\ (~Malformed(args.opportunity) /\ ~args.fault) => ret[1].value # None
        /\ ret[1].value # None =>
              /\ FeeAsSpecified(args.opportunity.buy_exchange, TradeOf.buy_fee_bps)
              /\ FeeAsSpecified(args.opportunity.sell_exchange, TradeOf.sell_fee_bps)

\* an opportunity selling on a venue the fee table does not hold
C19_Witness ==
    /\ SimulatedTrade
    /\ args.opportunity.sell_exchange \notin KnownVenues
    /\ TradeOf.sell_fee_bps = 30

GasCostReturned == api = "gas_cost" /\ ret # None

\* the gas price the cost is specified for: the caller's when one is passed,
\* the configured one otherwise
GasPriceAsSpecified ==
    IF args.gas_price_gwei = None THEN GasPriceGwei ELSE args.gas_price_gwei[1]

\* C18: gas_cost_usd = gas_price_gwei * gas_limit * 1e-9 * eth_price_usd with
\* the caller's gas price whenever one is passed, whatever its value, and the
\* configured default otherwise (the defaults give 20 USD); every trade of a
\* run carries the same value.
C18_GasCost ==
    /\ GasCostReturned =>
          /\ REq(ret[1], RMul(RMul(RInt(GasPriceAsSpecified), RNorm(GasLimit, 1000000000)),
                              RInt(EthPriceUsd)))
          /\ args.gas_price_gwei = None => REq(ret[1], RInt(20))
    /\ \A k \in 1..Len(all_trades) : REq(all_trades[k].gas_cost_usd, RInt(20))

----------------------------------------------------------------------------
(* detect on blocks without a comparable pair *)

\* no two of the supplied states share both token addresses
NoTwoShareTokens ==
    \A i \in 1..Len(DetectStates), j \in 1..Len(DetectStates) :
        i < j => ~(/\ DetectStates[i].token0_address = DetectStates[j].token0_address
                   /\ DetectStates[i].token1_address = DetectStates[j].token1_address)

\* C20: detect returns the empty list for 0 or 1 pool state and when no two
\* of the states share both token addresses; neither case is an error (with
\* non-zero reserves nothing is raised inside detect either).
C20_NoComparablePairEmpty ==
    (DetectReturned /\ args.response.ok /\ (Len(DetectStates) <= 1 \/ NoTwoShareTokens)) =>
        /\ ~ret[1].raised
        /\ DetectResult = <<>>
        /\ (Len(DetectStates) <= 1 \/ AllRowsValid) =>
              ~DetectBody(self_min_spread_bps, args.response, args.block_number,
                          args.min_spread_bps).raised

\* two pools of different pairs and different venues, priced 100 bps apart
C20_Witness ==
    /\ DetectReturned
    /\ Len(DetectStates) = 2
    /\ NoTwoShareTokens
    /\ AllRowsValid
    /\ DetectStates[1].exchange_name # DetectStates[2].exchange_name
    /\ ~REq(RowPrice(DetectStates[1]), RowPrice(DetectStates[2]))
    /\ DetectResult = <<>>

----------------------------------------------------------------------------
(* Matching of pool states by detect *)

\* C21: every Opportunity detect emits pairs two of the supplied states that
\* have the same token0 address, the same token1 address and different venue
\* names; two states of one venue, or of different token pairs, are never
\* matched.
C21_MatchedSamePairOtherVenue ==
    DetectReturned =>
        \A k \in 1..Len(DetectResult) :
            /\ DetectResult[k].buy_exchange # DetectResult[k].sell_exchange
            /\ \E i \in 1..Len(DetectStates), j \in 1..Len(DetectStates) :
                  /\ i # j
                  /\ RowsCandidate(DetectStates[i], DetectStates[j])
                  /\ OppIsOf(DetectResult[k], DetectStates[i], DetectStates[j])
                  /\ DetectResult[k].buy_exchange = DetectStates[i].exchange_name
                  /\ DetectResult[k].sell_exchange = DetectStates[j].exchange_name

\* an Opportunity was emitted from a block that also holds a second state of
\* one of its venues and a state of another token pair
C21_Witness ==
    /\ DetectReturned
    /\ Len(DetectResult) > 0
    /\ \E i, j \in 1..Len(DetectStates) :
          /\ i # j
          /\ DetectStates[i].exchange_name = DetectStates[j].exchange_name
          /\ DetectStates[i].token1_address = DetectStates[j].token1_address
          /\ RowsValid(DetectStates[i], DetectStates[j])
          /\ ~REq(RowPrice(DetectStates[i]), RowPrice(DetectStates[j]))

\* what C22 compares of an Opportunity
SpreadAndLegs(opp) ==
    [spread_bps |-> opp.spread_bps,
     buy_exchange |-> opp.buy_exchange, sell_exchange |-> opp.sell_exchange,
     buy_pair_address |-> opp.buy_pair_address, sell_pair_address |-> opp.sell_pair_address,
     buy_price |-> opp.buy_price, sell_price |-> opp.sell_price]

\* two states with positive reserves, of one token pair on two venues
TwoComparableStates ==
    /\ DetectReturned
    /\ args.response.ok
    /\ Len(DetectStates) = 2
    /\ RowsValid(DetectStates[1], DetectStates[2])
    /\ RowsCandidate(DetectStates[1], DetectStates[2])

\* the same call with the two states in the other order
SwappedResult ==
    detect_arbitrage_opportunities(self_min_spread_bps,
        ProviderRows(<<DetectStates[2], DetectStates[1]>>),
        args.block_number, args.min_spread_bps).opps

\* C22: for two states with positive reserves and the same token pair on
\* different venues, the spread_bps and the buy/sell assignment of the
\* emitted Opportunity do not depend on the order of the two states, and an
\* emitted spread_bps is never negative.
C22_SpreadOrderInvariant ==
    /\ DetectReturned => \A k \in 1..Len(DetectResult) : DetectResult[k].spread_bps.n >= 0
    /\ TwoComparableStates =>
          {SpreadAndLegs(DetectResult[k]) : k \in 1..Len(DetectResult)}
              = {SpreadAndLegs(SwappedResult[k]) : k \in 1..Len(SwappedResult)}

\* an Opportunity whose buy leg is the second of the two states
C22_Witness ==
    /\ TwoComparableStates
    /\ Len(DetectResult) = 1
    /\ RLt(RowPrice(DetectStates[2]), RowPrice(DetectStates[1]))
    /\ DetectResult[1].buy_exchange = DetectStates[2].exchange_name

----------------------------------------------------------------------------
(* Properties of the run's collections *)

FreshAcc == [opps |-> <<>>, trades |-> <<>>, nones |-> 0, raised |-> FALSE]

\* what the processing of the current block alone yields for a response of
\* the provider and the simulations that fail
BlockAlone(opportunities, faults) == SimulateAll(opportunities, 1, faults, FreshAcc)

AppendsBlockAlone(opportunities) ==
    \E faults \in SUBSET (1..Len(opportunities)) :
        /\ all_opportunities' = all_opportunities \o BlockAlone(opportunities, faults).opps
        /\ all_trades' = all_trades \o BlockAlone(opportunities, faults).trades

\* the thresholds a run hands to detect
RunThresholds == SelfMinSpreads \cup {m[1] : m \in RunMinSpreads \ {None}}

\* the lists detect can return for a block under a configuration, over
\* everything the session can yield for the block
DetectOutcomes ==
    UNION {{<<self_min, b, threshold,
              detect_arbitrage_opportunities(self_min, response, b, Some(threshold)).opps>> :
               self_min \in SelfMinSpreads, threshold \in RunThresholds,
               response \in ProviderResponses(b)} : b \in 1..MaxBlock}

\* C23: the processing of a block depends on the block's snapshot and the
\* configuration only: every iteration appends to the collections exactly
\* what processing that block on its own, from empty collections, yields, so
\* a run over [a, c] collects what runs over [a, b] and [b+1, c] collect,
\* concatenated.
C23_BlockIndependent ==
    [][(pc = "loop" /\ visited' # visited) =>
          \E outcome \in DetectOutcomes :
              /\ outcome[1] = self_min_spread_bps
              /\ outcome[2] = block_number
              /\ outcome[3] = PyOr(min_spread_bps, self_min_spread_bps)
              /\ AppendsBlockAlone(outcome[4])]_vars

\* a run has collected entries at its first and at its last block
C23_Witness ==
    /\ RunReturned
    /\ from_block < to_block
    /\ \E i, j \in 1..Len(all_trades) :
          /\ all_trades[i].block_number = from_block
          /\ all_trades[j].block_number = to_block

\* the blocks whose processing failed: the query raised, or a call of the
\* loop body raised into the runner's handler
FailedBlocks == provFailed \cup {h[1] : h \in handled}

\* C24: a block whose processing fails is skipped as a whole: the run's
\* collections hold no Opportunity and no TradeSimulation of it (the entries
\* of earlier blocks are never touched: the lists only grow by append).
C24_FailedBlockSkipped ==
    api = "run" =>
        \A b \in FailedBlocks :
            /\ \A k \in 1..Len(all_opportunities) : all_opportunities[k].block_number # b
            /\ \A k \in 1..Len(all_trades) : all_trades[k].block_number # b

\* the trade is the simulation of the opportunity
TradeIsOf(trade, opportunity) ==
    /\ trade.block_number = opportunity.block_number
    /\ trade.buy_exchange = opportunity.buy_exchange
    /\ trade.sell_exchange = opportunity.sell_exchange
    /\ trade.base_token = opportunity.base_token
    /\ trade.quote_token = opportunity.quote_token
    /\ REq(trade.spread_bps, opportunity.spread_bps)

\* the trades from the i-th on are simulations of opportunities from the
\* j-th on, in the same order
RECURSIVE TradesFollow(_, _, _, _)
TradesFollow(trades, opportunities, i, j) ==
    IF i > Len(trades) THEN TRUE
    ELSE IF j > Len(opportunities) THEN FALSE
    ELSE IF TradeIsOf(trades[i], opportunities[j])
    THEN TradesFollow(trades, opportunities, i + 1, j + 1)
    ELSE TradesFollow(trades, opportunities, i, j + 1)

\* C25: in a run simulate is called once for every Opportunity detect emits;
\* the Opportunity is appended whether or not the simulation yields a result
\* and a TradeSimulation is appended exactly when it does, so the trades are,
\* in order, simulations of opportunities of the collection.
C25_TradePerOpportunity ==
    (api = "run" /\ pc # "idle") =>
        /\ Len(all_trades) + simNone = Len(all_opportunities)
        /\ TradesFollow(all_trades, all_opportunities, 1, 1)

\* a run has returned opportunities with and without a simulation
C25_Witness ==
    /\ RunReturned
    /\ simNone > 0
    /\ Len(all_trades) > 0
    /\ Len(all_opportunities) = Len(all_trades) + simNone

SummaryCounts ==
    {"total_opportunities", "total_trades", "profitable_trades", "profitable_rate"}

\* C28: the summary of a run's collections has total_trades <=
\* total_opportunities, 0 <= profitable_trades <= total_trades and 0 <=
\* profitable_rate <= 1, profitable_trades being the number of trades with
\* is_profitable true.
C28_SummaryCounts ==
    (api = "run" /\ pc = "summarized") =>
        /\ SummaryCounts \subseteq DOMAIN summary[1].value
        /\ RGe(summary[1].value.total_opportunities, summary[1].value.total_trades)
        /\ RGe(summary[1].value.profitable_trades, RInt(0))
        /\ RGe(summary[1].value.total_trades, summary[1].value.profitable_trades)
        /\ RGe(summary[1].value.profitable_rate, RInt(0))
        /\ RGe(RInt(1), summary[1].value.profitable_rate)
        /\ REq(summary[1].value.profitable_trades,
               RInt(Cardinality({k \in 1..Len(all_trades) : all_trades[k].is_profitable})))

\* C29: within one run no two TradeSimulations carry the same
\* opportunity_id.
C29_OpportunityIdsDistinct ==
    api = "run" =>
        \A i \in 1..Len(all_trades), j \in 1..Len(all_trades) :
            i # j => all_trades[i].opportunity_id # all_trades[j].opportunity_id

BuyLegUndefined(opportunity) ==
    HasZeroReserve(opportunity.buy_reserve0, opportunity.buy_reserve1)

SellLegUndefined(opportunity) ==
    HasZeroReserve(opportunity.sell_reserve0, opportunity.sell_reserve1)

\* gross_profit of the trade is what the two legs at the quoted prices give
GrossAsUsual(trade) ==
    REq(RAdd(trade.gross_profit, RMul(trade.trade_amount_base, trade.buy_price)),
        AfterFee(RMul(AfterFee(trade.trade_amount_base, trade.buy_fee_bps), trade.sell_price),
                 trade.sell_fee_bps))

\* C26: when the price impact of a leg is undefined (a zero reserve on that
\* leg) simulate still returns a TradeSimulation, that leg's impact being
\* recorded as 0 bps and gross_profit, net_profit and is_profitable computed
\* as usual; neither an error nor None comes back.
C26_UndefinedImpactIsZero ==
    (SimulateReturned /\ ~args.fault /\ ~Malformed(args.opportunity)
        /\ (BuyLegUndefined(args.opportunity) \/ SellLegUndefined(args.opportunity))) =>
        /\ ~ret[1].raised
        /\ ret[1].value # None
        /\ (BuyLegUndefined(args.opportunity) => RIsZero(TradeOf.buy_price_impact_bps))
        /\ (SellLegUndefined(args.opportunity) => RIsZero(TradeOf.sell_price_impact_bps))
        /\ GrossAsUsual(TradeOf)
        /\ NetProfitConsistent(TradeOf)

\* a trade of 100 on an opportunity whose buy pool is drained and whose sell
\* pool is not
C26_Witness ==
    /\ SimulatedTrade
    /\ args.trade_amount_base = Some(RInt(100))
    /\ BuyLegUndefined(args.opportunity)
    /\ ~SellLegUndefined(args.opportunity)
    /\ RIsZero(TradeOf.buy_price_impact_bps)
    /\ ~RIsZero(TradeOf.sell_price_impact_bps)
    /\ TradeOf.is_profitable

\* the opportunities that differ from the given one in their reserves only
ReserveVariants(opportunity) ==
    {[opportunity EXCEPT !.buy_reserve0 = r.buy_reserve0, !.buy_reserve1 = r.buy_reserve1,
                         !.sell_reserve0 = r.sell_reserve0, !.sell_reserve1 = r.sell_reserve1] :
        r \in {ExampleOpportunity, HalfDrainedOpportunity} \cup DrainedOpportunities}

SameOutcome(trade, other) ==
    /\ REq(trade.gross_profit, other.gross_profit)
    /\ REq(trade.net_profit, other.net_profit)
    /\ REq(trade.roi_percentage, other.roi_percentage)
    /\ trade.is_profitable = other.is_profitable
    /\ REq(trade.trade_amount_base, other.trade_amount_base)

\* the call names its size, a whole number of base units (the variants' AMM
\* arithmetic on other sizes leaves the 32-bit range of the rationals)
ExplicitWholeAmount ==
    args.trade_amount_base # None /\ args.trade_amount_base[1].d = 1

\* C27: price impact is informational only: for an explicit trade_amount_base
\* two opportunities that differ only in their reserves yield the same
\* amount_received, gross_profit, net_profit, roi and is_profitable.
C27_ReservesDoNotMoveProfit ==
    (SimulatedTrade /\ ExplicitWholeAmount) =>
        \A variant \in ReserveVariants(args.opportunity) :
            SameOutcome(TradeOf, SimulateResult(variant, args.trade_amount_base))

\* a trade of 100 against live pools, with an impact on both legs that the
\* drained variant does not have
C27_Witness ==
    /\ SimulatedTrade
    /\ args.trade_amount_base = Some(RInt(100))
    /\ ~BuyLegUndefined(args.opportunity)
    /\ ~SellLegUndefined(args.opportunity)
    /\ ~RIsZero(TradeOf.buy_price_impact_bps)
    /\ ~RIsZero(TradeOf.sell_price_impact_bps)
    /\ TradeOf.gross_profit.n > 0

----------------------------------------------------------------------------
(* Properties of the fetcher's batching loop *)

FetchReturned == fetch_pc = "done"

\* C30: the batches the fetcher requests are [current_block,
\* min(current_block + batch_size - 1, to_block)], contiguous and
\* non-overlapping, and together they cover every block of [from_block,
\* to_block], to_block and the range of a single block included (the loop
\* ends for every batch_size >= 1 whether the requests fail or not).
C30_BatchesCoverRange ==
    FetchReturned =>
        /\ \A k \in 1..Len(requests) :
              /\ requests[k].from_block <= requests[k].to_block
              /\ requests[k].to_block =
                     Min(requests[k].from_block + args.batch_size - 1, args.to_block)
        /\ \A k \in 1..(Len(requests) - 1) :
              requests[k + 1].from_block = requests[k].to_block + 1
        /\ (args.from_block <= args.to_block =>
              /\ requests # <<>>
              /\ requests[1].from_block = args.from_block
              /\ requests[Len(requests)].to_block = args.to_block)

====
